---- MODULE Spec2Model ----
(***************************************************************************)
(* Model of src/puppeteer_server.js: an express server with three routes   *)
(* (GET /, POST /render, GET /scrape) and two scraping strategies          *)
(* (scrapeWithPuppeteer, scrapeWithScraperAPI).                            *)
(*                                                                         *)
(* Node runs the handlers on one thread; a handler runs without            *)
(* interruption up to its next await.  Every action below is one such run: *)
(* the arrival of a request up to the first await, or the completion of    *)
(* one awaited call (with its outcome chosen by the environment) up to the *)
(* next await or to the response.  Several requests are in flight at once, *)
(* one per connection of Reqs, and their steps interleave.                 *)
(***************************************************************************)
EXTENDS Integers, Sequences, FiniteSets

(***************************************************************************)
(* JavaScript values.  A value carries its type t and one payload field    *)
(* per type (b: boolean, n: number, s: string as a sequence of one         *)
(* character strings); the payloads of the other types are at a default.   *)
(***************************************************************************)
Undefined == [t |-> "undefined", b |-> FALSE, n |-> 0, s |-> <<>>]
Bool(x) == [t |-> "boolean", b |-> x, n |-> 0, s |-> <<>>]
Num(k) == [t |-> "number", b |-> FALSE, n |-> k, s |-> <<>>]
NaN == [t |-> "NaN", b |-> FALSE, n |-> 0, s |-> <<>>]
Str(cs) == [t |-> "string", b |-> FALSE, n |-> 0, s |-> cs]

\* ToBoolean: what `!x` and `if (x)` test.
Truthy(v) ==
    CASE v.t = "undefined" -> FALSE
      [] v.t = "boolean" -> v.b
      [] v.t = "number" -> v.n # 0
      [] v.t = "NaN" -> FALSE
      [] v.t = "string" -> Len(v.s) > 0

\* A destructuring default `{ x = d }` replaces undefined only.
Default(v, d) == IF v.t = "undefined" THEN d ELSE v

DigitChars == <<"0", "1", "2", "3", "4", "5", "6", "7", "8", "9">>
IsDigit(c) == \E i \in 1..10 : DigitChars[i] = c
DigitVal(c) == (CHOOSE i \in 1..10 : DigitChars[i] = c) - 1

RECURSIVE NatToStr(_)
NatToStr(k) == IF k < 10 THEN <<DigitChars[k + 1]>>
               ELSE NatToStr(k \div 10) \o <<DigitChars[(k % 10) + 1]>>

\* ToString, the conversion parseInt applies to its argument first.
ToString(v) ==
    CASE v.t = "undefined" -> <<"u", "n", "d", "e", "f", "i", "n", "e", "d">>
      [] v.t = "boolean" -> IF v.b THEN <<"t", "r", "u", "e">>
                                   ELSE <<"f", "a", "l", "s", "e">>
      [] v.t = "number" -> IF v.n < 0 THEN <<"-">> \o NatToStr(0 - v.n)
                                      ELSE NatToStr(v.n)
      [] v.t = "NaN" -> <<"N", "a", "N">>
      [] v.t = "string" -> v.s

RECURSIVE SkipSpace(_)
SkipSpace(cs) == IF cs # <<>> /\ Head(cs) = " " THEN SkipSpace(Tail(cs)) ELSE cs

RECURSIVE DigitPrefix(_)
DigitPrefix(cs) == IF cs # <<>> /\ IsDigit(Head(cs))
                   THEN <<Head(cs)>> \o DigitPrefix(Tail(cs)) ELSE <<>>

RECURSIVE DigitsVal(_, _)
DigitsVal(cs, acc) == IF cs = <<>> THEN acc
                      ELSE DigitsVal(Tail(cs), 10 * acc + DigitVal(Head(cs)))

\* parseInt(v) with no radix: leading white space is skipped, one sign is
\* read, then the longest prefix of decimal digits; no digit gives NaN.
\* (The 0x prefix is not modelled: no input below contains an x.)
ParseInt(v) ==
    LET cs == SkipSpace(ToString(v))
        neg == cs # <<>> /\ Head(cs) = "-"
        body == IF cs # <<>> /\ Head(cs) \in {"-", "+"} THEN Tail(cs) ELSE cs
        ds == DigitPrefix(body)
    IN  IF ds = <<>> THEN NaN
        ELSE Num(IF neg THEN 0 - DigitsVal(ds, 0) ELSE DigitsVal(ds, 0))

(***************************************************************************)
(* Bounds and input sets.                                                  *)
(***************************************************************************)
\* Longest waitFor string a query carries.
MaxStrLen == 1

\* The connections on which requests arrive; each carries one request at a
\* time and is reused once its response is sent.
Reqs == {1, 2}

WaitChars == {"7", "-", "a"}
RECURSIVE StringsUpTo(_)
StringsUpTo(k) == IF k = 0 THEN {<<>>}
                  ELSE LET shorter == StringsUpTo(k - 1)
                       IN  shorter \cup {<<c>> \o cs : c \in WaitChars,
                                         cs \in {x \in shorter : Len(x) = k - 1}}

STR_true == <<"t", "r", "u", "e">>
STR_false == <<"f", "a", "l", "s", "e">>
UrlA == <<"a", ".", "i", "o">>

\* Bodies express.json() hands to POST /render (absent keys are undefined).
RenderBodies ==
    [url : {Undefined, Str(<<>>), Str(UrlA)},
     waitFor : {Undefined, Num(500), Num(0 - 1), Str(<<"a">>)},
     useScraperAPI : {Undefined, Bool(TRUE), Bool(FALSE), Str(STR_false)}]

\* Query objects of GET /scrape: every present value is a string.
ScrapeQueries ==
    [url : {Undefined, Str(<<>>), Str(UrlA)},
     waitFor : {Undefined} \cup {Str(cs) : cs \in StringsUpTo(MaxStrLen)},
     useScraperAPI : {Undefined, Str(STR_true), Str(STR_false)}]

NoInput == [url |-> Undefined, waitFor |-> Undefined, useScraperAPI |-> Undefined]

\* Page markup a strategy may return, and the message of each failure.
Htmls == {"<html>A</html>", "<html>B</html>"}
ErrMsg(step) == step \o " failed"

\* waitFor = 2000 in both handlers' destructuring.
DefaultWaitFor == 2000

(***************************************************************************)
(* State.                                                                  *)
(***************************************************************************)
VARIABLES
    route,     \* route[r]: "idle", "/", "/render" or "/scrape"
    input,     \* input[r]: req.body or req.query of the request
    pc,        \* pc[r]: the await the handler is suspended at, or "idle"/"done"
    pending,   \* pending[r]: completion of the try block while finally runs
    calls,     \* calls[r]: strategy invocations of the request, in order
    results,   \* results[r]: what each finished invocation gave its caller
    caught,    \* caught[r]: message of the error bound by the handler's catch
    sent,      \* sent[r]: responses written for the request
    browser,   \* browser[r]: "none", "open" or "closed"
    page,      \* page[r]: "none", "open" or "closed"
    closes     \* closes[r]: resources whose close() completed, in order

vars == <<route, input, pc, pending, calls, results, caught, sent, browser,
          page, closes>>

NoPending == [kind |-> "none", val |-> ""]

Init ==
    /\ route = [r \in Reqs |-> "idle"]
    /\ input = [r \in Reqs |-> NoInput]
    /\ pc = [r \in Reqs |-> "idle"]
    /\ pending = [r \in Reqs |-> NoPending]
    /\ calls = [r \in Reqs |-> <<>>]
    /\ results = [r \in Reqs |-> <<>>]
    /\ caught = [r \in Reqs |-> ""]
    /\ sent = [r \in Reqs |-> <<>>]
    /\ browser = [r \in Reqs |-> "none"]
    /\ page = [r \in Reqs |-> "none"]
    /\ closes = [r \in Reqs |-> <<>>]

(***************************************************************************)
(* The handlers' local variables and response bodies.                      *)
(***************************************************************************)
\* const { url, waitFor = 2000, useScraperAPI = false } = req.body / req.query
WaitForOf(in) == Default(in.waitFor, Num(DefaultWaitFor))
UseScraperAPIOf(in) == Default(in.useScraperAPI, Bool(FALSE))

\* Variant: only an absent url counts as missing.
MissingUrlUndefinedOnly(url) == url.t = "undefined"

\* if (!url)
MissingUrl(url) == ~Truthy(url)

\* POST /render: if (useScraperAPI), and the method tag's condition.
RenderForced(usa) == Truthy(usa)

\* Variant: the query flag compared with the boolean true.
ScrapeForcedBoolean(usa) == usa = Bool(TRUE)

\* GET /scrape: if (useScraperAPI === 'true'), and the method tag's condition.
ScrapeForced(usa) == usa = Str(STR_true)

\* Variant: the catch block falls back whatever the flag.
AutoFallbackAlways(usa) == TRUE

\* POST /render, catch block: if (!useScraperAPI)
AutoFallback(usa) == ~Truthy(usa)

\* The second argument each handler gives scrapeWithPuppeteer.
RenderWaitArg(waitFor) == waitFor
ScrapeWaitArg(waitFor) == ParseInt(waitFor)

\* Variant: POST /render tags every success 'Puppeteer'.
RenderMethodAlwaysPuppeteer(usa) == "Puppeteer"
RenderMethod(usa) == IF RenderForced(usa) THEN "ScraperAPI" ELSE "Puppeteer"
\* Variant: GET /scrape tags by the truthiness of the flag, as POST /render.
ScrapeMethodTruthy(usa) == IF Truthy(usa) THEN "ScraperAPI" ELSE "Puppeteer"
ScrapeMethod(usa) == IF ScrapeForced(usa) THEN "ScraperAPI" ELSE "Puppeteer"

\* Variant: the status reported depends on the renders in flight.
HealthBodyBusy ==
    IF \E q \in Reqs : browser[q] = "open"
    THEN [status |-> "Puppeteer Server Busy"]
    ELSE [status |-> "Puppeteer Server Running"]
HealthBody == [status |-> "Puppeteer Server Running"]
RenderMissingBody == [error |-> "URL is required"]
ScrapeMissingBody == [error |-> "URL parameter is required"]
SuccessBody(url, html, method) ==
    [success |-> TRUE, url |-> url, html |-> html, method |-> method]
\* Variant: the fallback success without its warning.
FallbackBodyNoWarning(url, html) ==
    [success |-> TRUE, url |-> url, html |-> html,
     method |-> "ScraperAPI (fallback)"]
FallbackBody(url, html) ==
    [success |-> TRUE, url |-> url, html |-> html,
     method |-> "ScraperAPI (fallback)",
     warning |-> "Puppeteer failed, used fallback"]
\* Variant: the two messages under each other's key.
BothFailedBodySwapped(puppeteerMsg, scraperApiMsg) ==
    [error |-> "Both Puppeteer and ScraperAPI failed",
     puppeteerError |-> scraperApiMsg, scraperApiError |-> puppeteerMsg]
BothFailedBody(puppeteerMsg, scraperApiMsg) ==
    [error |-> "Both Puppeteer and ScraperAPI failed",
     puppeteerError |-> puppeteerMsg, scraperApiError |-> scraperApiMsg]
\* Variant: the error response hides the failure's message.
FailedBodyGeneric(msg) == [error |-> "Scraping failed", message |-> "Internal error"]
FailedBody(msg) == [error |-> "Scraping failed", message |-> msg]

PuppeteerCall(url, waitArg) ==
    [fn |-> "scrapeWithPuppeteer", url |-> url, waitFor |-> waitArg]
ScraperAPICall(url) ==
    [fn |-> "scrapeWithScraperAPI", url |-> url, waitFor |-> Undefined]

Resolved(html) == [ok |-> TRUE, val |-> html]
Rejected(msg) == [ok |-> FALSE, val |-> msg]

(***************************************************************************)
(* Steps of the handlers.  Each sets pc, calls, caught and sent.           *)
(***************************************************************************)
\* Variant: one error variable at module level, shared by all requests.
CaughtErrorShared(r) ==
    IF \E q \in Reqs : q # r /\ caught[q] # ""
    THEN caught[CHOOSE q \in Reqs : q # r /\ caught[q] # ""]
    ELSE caught[r]

\* error.message in the inner catch: the binding of this request's catch.
CaughtError(r) == caught[r]

\* res.status(status).json(body)
Respond(r, status, body) ==
    /\ sent' = [sent EXCEPT ![r] = Append(@, [status |-> status, body |-> body])]
    /\ pc' = [pc EXCEPT ![r] = "done"]

\* The try block from its start to the first await.
Dispatch(r, forced, url, waitArg) ==
    /\ IF forced
       THEN /\ calls' = [calls EXCEPT ![r] = Append(@, ScraperAPICall(url))]
            /\ pc' = [pc EXCEPT ![r] = "scraperAPI"]
       ELSE /\ calls' = [calls EXCEPT ![r] = Append(@, PuppeteerCall(url, waitArg))]
            /\ pc' = [pc EXCEPT ![r] = "launch"]
    /\ UNCHANGED <<caught, sent>>

\* The try block after its await resolved with html.
OnResolved(r, html) ==
    /\ Respond(r, 200,
           SuccessBody(input[r].url, html,
               IF route[r] = "/render"
               THEN RenderMethod(UseScraperAPIOf(input[r]))
               ELSE ScrapeMethod(UseScraperAPIOf(input[r]))))
    /\ UNCHANGED <<calls, caught>>

\* Variant: the catch block retries the primary strategy once.
RenderCatchRetryPrimary(r, msg) ==
    /\ caught' = [caught EXCEPT ![r] = msg]
    /\ IF Len(calls[r]) < 2
       THEN /\ calls' = [calls EXCEPT ![r] =
                            Append(@, PuppeteerCall(input[r].url, WaitForOf(input[r])))]
            /\ pc' = [pc EXCEPT ![r] = "launch"]
            /\ UNCHANGED sent
       ELSE /\ Respond(r, 500, FailedBody(msg))
            /\ UNCHANGED calls

\* POST /render: the catch block with error.message = msg, up to the
\* await of the fallback call or to the response.
RenderCatch(r, msg) ==
    /\ caught' = [caught EXCEPT ![r] = msg]
    /\ IF AutoFallback(UseScraperAPIOf(input[r]))
       THEN /\ calls' = [calls EXCEPT ![r] = Append(@, ScraperAPICall(input[r].url))]
            /\ pc' = [pc EXCEPT ![r] = "fallback"]
            /\ UNCHANGED sent
       ELSE /\ Respond(r, 500, FailedBody(msg))
            /\ UNCHANGED calls

\* Variant: GET /scrape falls back as POST /render does.
ScrapeCatchWithFallback(r, msg) ==
    /\ caught' = [caught EXCEPT ![r] = msg]
    /\ IF ~Truthy(UseScraperAPIOf(input[r]))
       THEN /\ calls' = [calls EXCEPT ![r] = Append(@, ScraperAPICall(input[r].url))]
            /\ pc' = [pc EXCEPT ![r] = "fallback"]
            /\ UNCHANGED sent
       ELSE /\ Respond(r, 500, FailedBody(msg))
            /\ UNCHANGED calls

\* Variant: the catch block of GET /scrape logs and never answers.
ScrapeCatchSilent(r, msg) ==
    /\ caught' = [caught EXCEPT ![r] = msg]
    /\ pc' = [pc EXCEPT ![r] = "unanswered"]
    /\ UNCHANGED <<calls, sent>>

\* GET /scrape: the catch block with error.message = msg.
ScrapeCatch(r, msg) ==
    /\ caught' = [caught EXCEPT ![r] = msg]
    /\ Respond(r, 500, FailedBody(msg))
    /\ UNCHANGED calls

OnRejected(r, msg) ==
    IF route[r] = "/render" THEN RenderCatch(r, msg) ELSE ScrapeCatch(r, msg)

\* The strategy call the handler awaits in its try block settles.
ReturnToHandler(r, html) ==
    /\ results' = [results EXCEPT ![r] = Append(@, Resolved(html))]
    /\ OnResolved(r, html)

ThrowToHandler(r, msg) ==
    /\ results' = [results EXCEPT ![r] = Append(@, Rejected(msg))]
    /\ OnRejected(r, msg)

(***************************************************************************)
(* Arrival of a request.                                                   *)
(***************************************************************************)
Health(r) ==
    /\ pc[r] = "idle"
    /\ route' = [route EXCEPT ![r] = "/"]
    /\ Respond(r, 200, HealthBody)
    /\ UNCHANGED <<input, pending, calls, results, caught, browser, page, closes>>

\* POST /render with req.body = body, up to the first await.
RenderOf(r, body) ==
    /\ pc[r] = "idle"
    /\ route' = [route EXCEPT ![r] = "/render"]
    /\ input' = [input EXCEPT ![r] = body]
    /\ IF MissingUrl(body.url)
       THEN /\ Respond(r, 400, RenderMissingBody)
            /\ UNCHANGED <<calls, caught>>
       ELSE Dispatch(r, RenderForced(UseScraperAPIOf(body)), body.url,
                     RenderWaitArg(WaitForOf(body)))
    /\ UNCHANGED <<pending, results, browser, page, closes>>

Render(r) == \E body \in RenderBodies : RenderOf(r, body)

\* GET /scrape with req.query = query, up to the first await.
ScrapeOf(r, query) ==
    /\ pc[r] = "idle"
    /\ route' = [route EXCEPT ![r] = "/scrape"]
    /\ input' = [input EXCEPT ![r] = query]
    /\ IF MissingUrl(query.url)
       THEN /\ Respond(r, 400, ScrapeMissingBody)
            /\ UNCHANGED <<calls, caught>>
       ELSE Dispatch(r, ScrapeForced(UseScraperAPIOf(query)), query.url,
                     ScrapeWaitArg(WaitForOf(query)))
    /\ UNCHANGED <<pending, results, browser, page, closes>>

Scrape(r) == \E query \in ScrapeQueries : ScrapeOf(r, query)

(***************************************************************************)
(* scrapeWithPuppeteer: one action per awaited call.                       *)
(***************************************************************************)
\* const browser = await puppeteer.launch(...)
Launch(r) ==
    /\ pc[r] = "launch"
    /\ \E ok \in BOOLEAN :
        IF ok
        THEN /\ browser' = [browser EXCEPT ![r] = "open"]
             /\ pc' = [pc EXCEPT ![r] = "newPage"]
             /\ UNCHANGED <<calls, results, caught, sent>>
        ELSE /\ ThrowToHandler(r, ErrMsg("launch"))
             /\ UNCHANGED browser
    /\ UNCHANGED <<route, input, pending, page, closes>>

\* const page = await browser.newPage(), outside the try block
NewPage(r) ==
    /\ pc[r] = "newPage"
    /\ \E ok \in BOOLEAN :
        IF ok
        THEN /\ page' = [page EXCEPT ![r] = "open"]
             /\ pc' = [pc EXCEPT ![r] = "setViewport"]
             /\ UNCHANGED <<calls, results, caught, sent>>
        ELSE /\ ThrowToHandler(r, ErrMsg("newPage"))
             /\ UNCHANGED page
    /\ UNCHANGED <<route, input, pending, browser, closes>>

\* An awaited call inside the try block: on failure the finally block
\* starts, with the error as the pending completion.
TryStep(r, step, next) ==
    /\ pc[r] = step
    /\ \E ok \in BOOLEAN :
        IF ok
        THEN /\ pc' = [pc EXCEPT ![r] = next]
             /\ UNCHANGED pending
        ELSE /\ pc' = [pc EXCEPT ![r] = "pageClose"]
             /\ pending' = [pending EXCEPT ![r] = [kind |-> "throw", val |-> ErrMsg(step)]]
    /\ UNCHANGED <<route, input, calls, results, caught, sent, browser, page, closes>>

SetViewport(r) == TryStep(r, "setViewport", "setUserAgent")
SetUserAgent(r) == TryStep(r, "setUserAgent", "goto")
Goto(r) == TryStep(r, "goto", "waitForTimeout")
WaitForTimeout(r) == TryStep(r, "waitForTimeout", "content")

\* const html = await page.content(); return html;
Content(r) ==
    /\ pc[r] = "content"
    /\ pc' = [pc EXCEPT ![r] = "pageClose"]
    /\ \E ok \in BOOLEAN :
        IF ok
        THEN \E html \in Htmls :
                pending' = [pending EXCEPT ![r] = [kind |-> "return", val |-> html]]
        ELSE pending' = [pending EXCEPT ![r] = [kind |-> "throw", val |-> ErrMsg("content")]]
    /\ UNCHANGED <<route, input, calls, results, caught, sent, browser, page, closes>>

\* finally: await page.close()
PageClose(r) ==
    /\ pc[r] = "pageClose"
    /\ \E ok \in BOOLEAN :
        IF ok
        THEN /\ page' = [page EXCEPT ![r] = "closed"]
             /\ closes' = [closes EXCEPT ![r] = Append(@, "page")]
             /\ pc' = [pc EXCEPT ![r] = "browserClose"]
             /\ UNCHANGED <<pending, calls, results, caught, sent>>
        ELSE /\ ThrowToHandler(r, ErrMsg("page.close"))
             /\ pending' = [pending EXCEPT ![r] = NoPending]
             /\ UNCHANGED <<page, closes>>
    /\ UNCHANGED <<route, input, browser>>

\* Variant: one browser variable at module level, closed for every request.
BrowserClosedShared(r) ==
    [q \in Reqs |-> IF browser[q] = "open" THEN "closed" ELSE browser[q]]

\* browser.close() acts on the const browser of this invocation.
BrowserClosed(r) == [browser EXCEPT ![r] = "closed"]

\* Variant: a failure of browser.close() is swallowed and the pending
\* completion of the try block resumes.
BrowserCloseSwallow(r) ==
    /\ pc[r] = "browserClose"
    /\ \E ok \in BOOLEAN :
        /\ IF ok
           THEN /\ browser' = [browser EXCEPT ![r] = "closed"]
                /\ closes' = [closes EXCEPT ![r] = Append(@, "browser")]
           ELSE UNCHANGED <<browser, closes>>
        /\ IF pending[r].kind = "return"
           THEN ReturnToHandler(r, pending[r].val)
           ELSE ThrowToHandler(r, pending[r].val)
    /\ pending' = [pending EXCEPT ![r] = NoPending]
    /\ UNCHANGED <<route, input, page>>

\* finally: await browser.close(), then the pending completion resumes
BrowserClose(r) ==
    /\ pc[r] = "browserClose"
    /\ \E ok \in BOOLEAN :
        IF ok
        THEN /\ browser' = BrowserClosed(r)
             /\ closes' = [closes EXCEPT ![r] = Append(@, "browser")]
             /\ IF pending[r].kind = "return"
                THEN ReturnToHandler(r, pending[r].val)
                ELSE ThrowToHandler(r, pending[r].val)
        ELSE /\ ThrowToHandler(r, ErrMsg("browser.close"))
             /\ UNCHANGED <<browser, closes>>
    /\ pending' = [pending EXCEPT ![r] = NoPending]
    /\ UNCHANGED <<route, input, page>>

(***************************************************************************)
(* scrapeWithScraperAPI: its one awaited call, axios.get.                  *)
(***************************************************************************)
\* html = await scrapeWithScraperAPI(url) in the try block
ScraperAPI(r) ==
    /\ pc[r] = "scraperAPI"
    /\ \E ok \in BOOLEAN :
        IF ok
        THEN \E html \in Htmls : ReturnToHandler(r, html)
        ELSE ThrowToHandler(r, ErrMsg("axios.get"))
    /\ UNCHANGED <<route, input, pending, browser, page, closes>>

\* const html = await scrapeWithScraperAPI(url) in the catch block
Fallback(r) ==
    /\ pc[r] = "fallback"
    /\ \E ok \in BOOLEAN :
        IF ok
        THEN \E html \in Htmls :
                /\ results' = [results EXCEPT ![r] = Append(@, Resolved(html))]
                /\ Respond(r, 200, FallbackBody(input[r].url, html))
        ELSE /\ results' = [results EXCEPT ![r] = Append(@, Rejected(ErrMsg("axios.get")))]
             /\ Respond(r, 500, BothFailedBody(CaughtError(r), ErrMsg("axios.get")))
    /\ UNCHANGED <<route, input, pending, calls, caught, browser, page, closes>>

\* The response is out and the connection takes its next request.  The
\* handler's locals are gone; a browser it left open is no longer referenced.
Recycle(r) ==
    /\ pc[r] = "done"
    /\ route' = [route EXCEPT ![r] = "idle"]
    /\ input' = [input EXCEPT ![r] = NoInput]
    /\ pc' = [pc EXCEPT ![r] = "idle"]
    /\ calls' = [calls EXCEPT ![r] = <<>>]
    /\ results' = [results EXCEPT ![r] = <<>>]
    /\ caught' = [caught EXCEPT ![r] = ""]
    /\ sent' = [sent EXCEPT ![r] = <<>>]
    /\ browser' = [browser EXCEPT ![r] = "none"]
    /\ page' = [page EXCEPT ![r] = "none"]
    /\ closes' = [closes EXCEPT ![r] = <<>>]
    /\ UNCHANGED pending

Next ==
    \E r \in Reqs :
        \/ Health(r)
        \/ Render(r)
        \/ Scrape(r)
        \/ Launch(r)
        \/ NewPage(r)
        \/ SetViewport(r)
        \/ SetUserAgent(r)
        \/ Goto(r)
        \/ WaitForTimeout(r)
        \/ Content(r)
        \/ PageClose(r)
        \/ BrowserClose(r)
        \/ ScraperAPI(r)
        \/ Fallback(r)
        \/ Recycle(r)

Spec == Init /\ [][Next]_vars

(***************************************************************************)
(* Vocabulary of the properties.                                           *)
(***************************************************************************)
Scraping == {r \in Reqs : route[r] \in {"/render", "/scrape"}}
Invoked(r, fn) == {i \in DOMAIN calls[r] : calls[r][i].fn = fn}
PrimaryFinished(r) ==
    /\ results[r] # <<>>
    /\ calls[r][1].fn = "scrapeWithPuppeteer"
\* The request asks for the fallback strategy outright.
ForcedRequest(r) ==
    \/ route[r] = "/render" /\ input[r].useScraperAPI = Bool(TRUE)
    \/ route[r] = "/scrape" /\ input[r].useScraperAPI = Str(STR_true)
\* A POST /render request that does not.
PlainRender(r) ==
    /\ route[r] = "/render"
    /\ input[r].useScraperAPI \in {Undefined, Bool(FALSE)}
UrlMissing(r) == input[r].url \in {Undefined, Str(<<>>)}

\* C1: a request to POST /render or GET /scrape without a url is answered
\* 400 and invokes no strategy; a 400 never follows a strategy call, and a
\* response reporting the failure of the last strategy call is a 500.
C1_MissingUrlRejected ==
    \A r \in Scraping :
        /\ UrlMissing(r) =>
              /\ Len(sent[r]) = 1 /\ sent[r][1].status = 400
              /\ calls[r] = <<>>
        /\ \A i \in DOMAIN sent[r] :
              sent[r][i].status = 400 => calls[r] = <<>> /\ results[r] = <<>>
        /\ (pc[r] = "done" /\ results[r] # <<>> /\ ~results[r][Len(results[r])].ok)
              => Len(sent[r]) = 1 /\ sent[r][1].status = 500

C1_Witness ==
    /\ route[1] = "/render" /\ input[1].url = Undefined
    /\ Len(sent[1]) = 1 /\ sent[1][1].status = 400
    /\ route[2] = "/scrape" /\ input[2].url = Str(<<>>)
    /\ Len(sent[2]) = 1 /\ sent[2][1].status = 400

\* C2: when scrapeWithPuppeteer was invoked and returned to its caller, the
\* response is a 200 tagged 'Puppeteer' without a warning, and
\* scrapeWithScraperAPI is not invoked for the request.
C2_PrimarySuccess ==
    \A r \in Scraping :
        (PrimaryFinished(r) /\ results[r][1].ok) =>
            /\ pc[r] = "done"
            /\ Len(sent[r]) = 1
            /\ sent[r][1].status = 200
            /\ sent[r][1].body.success = TRUE
            /\ sent[r][1].body.method = "Puppeteer"
            /\ "warning" \notin DOMAIN sent[r][1].body
            /\ Invoked(r, "scrapeWithScraperAPI") = {}

C2_Witness ==
    /\ route[1] = "/render" /\ PrimaryFinished(1) /\ results[1][1].ok
    /\ route[2] = "/scrape" /\ PrimaryFinished(2) /\ results[2][1].ok
    /\ input[2].useScraperAPI = Str(STR_false)

\* C3: on POST /render without forced fallback, once the primary strategy
\* has failed scrapeWithScraperAPI is invoked exactly once, and when that
\* call succeeds the response is a 200 tagged 'ScraperAPI (fallback)' that
\* has a warning field.
C3_FallbackSuccess ==
    \A r \in Reqs :
        (PlainRender(r) /\ PrimaryFinished(r) /\ ~results[r][1].ok) =>
            /\ Cardinality(Invoked(r, "scrapeWithScraperAPI")) = 1
            /\ (Len(results[r]) = 2 /\ results[r][2].ok) =>
                  /\ pc[r] = "done"
                  /\ Len(sent[r]) = 1
                  /\ sent[r][1].status = 200
                  /\ sent[r][1].body.method = "ScraperAPI (fallback)"
                  /\ "warning" \in DOMAIN sent[r][1].body

C3_Witness ==
    \E r \in Reqs :
        /\ PlainRender(r) /\ PrimaryFinished(r) /\ ~results[r][1].ok
        /\ Len(results[r]) = 2 /\ results[r][2].ok
        /\ pc[r] = "done"

\* C4: on POST /render without forced fallback, when the primary and the
\* fallback strategy both failed the response is a 500 whose puppeteerError
\* is the primary failure's message and whose scraperApiError is the
\* fallback failure's message.
C4_BothFailed ==
    \A r \in Reqs :
        (/\ PlainRender(r) /\ PrimaryFinished(r)
         /\ Len(results[r]) = 2 /\ ~results[r][1].ok /\ ~results[r][2].ok) =>
            /\ pc[r] = "done"
            /\ Len(sent[r]) = 1
            /\ sent[r][1].status = 500
            /\ DOMAIN sent[r][1].body = {"error", "puppeteerError", "scraperApiError"}
            /\ sent[r][1].body.puppeteerError = results[r][1].val
            /\ sent[r][1].body.scraperApiError = results[r][2].val

C4_Witness ==
    \E r \in Reqs :
        /\ PlainRender(r) /\ PrimaryFinished(r)
        /\ Len(results[r]) = 2 /\ ~results[r][1].ok /\ ~results[r][2].ok
        /\ results[r][1].val = "goto failed"

\* C5: a request with forced fallback never invokes scrapeWithPuppeteer
\* and never has a browser or a page, at any point of its handling.
C5_ForcedNeverPrimary ==
    \A r \in Reqs :
        ForcedRequest(r) =>
            /\ Invoked(r, "scrapeWithPuppeteer") = {}
            /\ browser[r] = "none" /\ page[r] = "none"

C5_Witness ==
    /\ route[1] = "/render" /\ ForcedRequest(1) /\ ~UrlMissing(1)
    /\ pc[1] = "done" /\ results[1][1].ok
    /\ route[2] = "/scrape" /\ ForcedRequest(2) /\ ~UrlMissing(2)
    /\ pc[2] = "done" /\ ~results[2][1].ok

\* C6: when the fallback strategy fails in a request with forced fallback,
\* the request made that one strategy call and no other, and its response
\* is the 500 {error: 'Scraping failed', message: the failure's message}.
C6_ForcedFailureTerminal ==
    \A r \in Reqs :
        (ForcedRequest(r) /\ results[r] # <<>> /\ ~results[r][1].ok) =>
            /\ pc[r] = "done"
            /\ Len(calls[r]) = 1
            /\ calls[r][1].fn = "scrapeWithScraperAPI"
            /\ sent[r] = <<[status |-> 500,
                            body |-> [error |-> "Scraping failed",
                                      message |-> results[r][1].val]]>>

C6_Witness ==
    /\ route[1] = "/render" /\ ForcedRequest(1)
    /\ results[1] # <<>> /\ ~results[1][1].ok
    /\ route[2] = "/scrape" /\ ForcedRequest(2)
    /\ results[2] # <<>> /\ ~results[2][1].ok

\* C7: on GET /scrape without forced fallback a failure of the primary
\* strategy is answered 500 {error, message} with that failure's message
\* and scrapeWithScraperAPI is not invoked; GET /scrape never sends the
\* dual-error body nor a success tagged 'ScraperAPI (fallback)'.
C7_ScrapeNoFallback ==
    \A r \in Reqs :
        route[r] = "/scrape" =>
            /\ (/\ input[r].useScraperAPI # Str(STR_true)
                /\ results[r] # <<>> /\ ~results[r][1].ok) =>
                  /\ pc[r] = "done"
                  /\ Invoked(r, "scrapeWithScraperAPI") = {}
                  /\ sent[r] = <<[status |-> 500,
                                  body |-> [error |-> "Scraping failed",
                                            message |-> results[r][1].val]]>>
            /\ \A i \in DOMAIN sent[r] :
                  /\ "puppeteerError" \notin DOMAIN sent[r][i].body
                  /\ "scraperApiError" \notin DOMAIN sent[r][i].body
                  /\ "method" \in DOMAIN sent[r][i].body
                        => sent[r][i].body.method # "ScraperAPI (fallback)"

C7_Witness ==
    \E r \in Reqs :
        /\ route[r] = "/scrape"
        /\ input[r].useScraperAPI = Undefined
        /\ PrimaryFinished(r) /\ results[r][1].val = "waitForTimeout failed"
        /\ pc[r] = "done"

\* C8: once scrapeWithPuppeteer has returned or failed to its caller, the
\* browser it launched and the page it opened are released.
C8_ReleasedOnEveryExit ==
    \A r \in Reqs :
        PrimaryFinished(r) => browser[r] # "open" /\ page[r] # "open"

\* C9: the wait duration given to scrapeWithPuppeteer is a non-negative
\* integer; it is 2000 when waitFor is absent and when waitFor is not
\* numeric.
C9_WaitIsNonNegativeInteger ==
    \A r \in Reqs :
        \A i \in Invoked(r, "scrapeWithPuppeteer") :
            /\ calls[r][i].waitFor.t = "number"
            /\ calls[r][i].waitFor.n >= 0
            /\ input[r].waitFor = Undefined
                  => calls[r][i].waitFor = Num(2000)
            /\ (\/ input[r].waitFor.t \notin {"undefined", "number", "string"}
                \/ /\ input[r].waitFor.t = "string"
                   /\ \E k \in DOMAIN input[r].waitFor.s :
                         ~IsDigit(input[r].waitFor.s[k]))
                  => calls[r][i].waitFor = Num(2000)

\* The response POST /render and GET /scrape owe a request, from the
\* request's own route and input and the outcomes of its own strategy calls.
ResponseOf(rt, in, res) ==
    LET forced == IF rt = "/render" THEN Truthy(in.useScraperAPI)
                  ELSE in.useScraperAPI = Str(STR_true)
    IN  IF in.url \in {Undefined, Str(<<>>)}
        THEN [status |-> 400,
              body |-> [error |-> IF rt = "/render" THEN "URL is required"
                                  ELSE "URL parameter is required"]]
        ELSE IF res[1].ok
        THEN [status |-> 200,
              body |-> [success |-> TRUE, url |-> in.url, html |-> res[1].val,
                        method |-> IF forced THEN "ScraperAPI" ELSE "Puppeteer"]]
        ELSE IF Len(res) = 1
        THEN [status |-> 500,
              body |-> [error |-> "Scraping failed", message |-> res[1].val]]
        ELSE IF res[2].ok
        THEN [status |-> 200,
              body |-> [success |-> TRUE, url |-> in.url, html |-> res[2].val,
                        method |-> "ScraperAPI (fallback)",
                        warning |-> "Puppeteer failed, used fallback"]]
        ELSE [status |-> 500,
              body |-> [error |-> "Both Puppeteer and ScraperAPI failed",
                        puppeteerError |-> res[1].val,
                        scraperApiError |-> res[2].val]]

\* C10: the response of a request is determined by the request's inputs and
\* the outcomes of its own strategy calls: two answered requests that agree
\* on these have the same response, whatever the other connection did before
\* or meanwhile.
C10_ResponseDetermined ==
    /\ \A r \in Scraping :
          pc[r] = "done" => sent[r] = <<ResponseOf(route[r], input[r], results[r])>>
    /\ \A r1, r2 \in Scraping :
          (/\ pc[r1] = "done" /\ pc[r2] = "done"
           /\ route[r1] = route[r2] /\ input[r1] = input[r2]
           /\ results[r1] = results[r2]) => sent[r1] = sent[r2]

C10_Witness ==
    /\ route[1] = "/render" /\ pc[1] = "done"
    /\ Len(results[1]) = 2 /\ ~results[1][2].ok
    /\ results[1][1].val = "content failed"
    /\ route[2] = route[1] /\ pc[2] = "done"
    /\ input[2] = input[1] /\ results[2] = results[1]

\* The fields of a response body that carry a strategy failure's message.
MessageKeys == {"message", "puppeteerError", "scraperApiError"}

\* C11 (as claimed): the response of every request in which a strategy call
\* failed carries, in its body, the message of each call that failed.
C11_EveryFailureDescribed ==
    \A r \in Scraping :
        pc[r] = "done" =>
            \A i \in DOMAIN results[r] :
                ~results[r][i].ok =>
                    \E k \in MessageKeys \cap DOMAIN sent[r][1].body :
                        sent[r][1].body[k] = results[r][i].val

\* C11 (amended): a request whose last strategy call failed is answered 500
\* and the body carries the message of each call that failed, under message
\* for one failure and under puppeteerError and scraperApiError for two; a
\* request whose primary call failed and whose fallback succeeded is
\* answered 200 with the warning 'Puppeteer failed, used fallback' and
\* without the primary failure's message.
C11_ErrorResponsesDescribe ==
    \A r \in Scraping :
        (pc[r] = "done" /\ results[r] # <<>>) =>
            LET res == results[r]
                rsp == sent[r][1]
            IN  /\ ~res[Len(res)].ok =>
                      /\ rsp.status = 500
                      /\ Len(res) = 1 =>
                            /\ rsp.body.error = "Scraping failed"
                            /\ rsp.body.message = res[1].val
                      /\ Len(res) = 2 =>
                            /\ rsp.body.error = "Both Puppeteer and ScraperAPI failed"
                            /\ rsp.body.puppeteerError = res[1].val
                            /\ rsp.body.scraperApiError = res[2].val
                /\ (~res[1].ok /\ res[Len(res)].ok) =>
                      /\ rsp.status = 200
                      /\ rsp.body.warning = "Puppeteer failed, used fallback"
                      /\ MessageKeys \cap DOMAIN rsp.body = {}

C11_Witness ==
    /\ route[1] = "/render" /\ pc[1] = "done"
    /\ Len(results[1]) = 2 /\ ~results[1][1].ok /\ results[1][2].ok
    /\ route[2] = "/scrape" /\ pc[2] = "done"
    /\ results[2] # <<>> /\ ~results[2][1].ok

\* The completion of the call connection r awaits, whatever call it is.
StepOf(r) ==
    \/ Launch(r) \/ NewPage(r) \/ SetViewport(r) \/ SetUserAgent(r)
    \/ Goto(r) \/ WaitForTimeout(r) \/ Content(r) \/ PageClose(r)
    \/ BrowserClose(r) \/ ScraperAPI(r) \/ Fallback(r)

\* Whatever the other connections are doing, an idle connection can take
\* any request and a suspended handler can resume.
NeverBlocked ==
    \A r \in Reqs :
        /\ pc[r] = "idle" =>
              ENABLED Health(r) /\ ENABLED Render(r) /\ ENABLED Scrape(r)
        /\ pc[r] \notin {"idle", "done"} => ENABLED StepOf(r)

\* A browser or page stops being open only by the close of the request
\* that opened it (or is forgotten with that request's handler).
OwnRelease ==
    \A r \in Reqs :
        /\ (browser[r] = "open" /\ browser'[r] # "open")
              => pc[r] \in {"browserClose", "done"}
        /\ (page[r] = "open" /\ page'[r] # "open")
              => pc[r] \in {"pageClose", "done"}

\* C12: no request blocks another: in every state, whatever call another
\* request is suspended at, an idle connection can take GET /, POST /render
\* or GET /scrape and a suspended handler can take its next step; and a
\* primary render closes only the browser and page it launched itself.
C12_NoRequestBlocksAnother == []NeverBlocked /\ [][OwnRelease]_vars

C12_Witness ==
    /\ pc[1] = "goto" /\ browser[1] = "open" /\ page[1] = "open"
    /\ route[2] = "/render" /\ pc[2] = "done" /\ closes[2] = <<"page", "browser">>
    /\ results[2][1].ok

\* C13: in every 200 response of POST /render and GET /scrape the html is
\* the value returned by the request's own last strategy call, which
\* succeeded, and the method tag names the strategy of that call.
C13_HtmlVerbatim ==
    \A r \in Scraping :
        \A i \in DOMAIN sent[r] :
            sent[r][i].status = 200 =>
                LET n == Len(results[r])
                    body == sent[r][i].body
                IN  /\ n >= 1 /\ Len(calls[r]) = n
                    /\ results[r][n].ok
                    /\ body.html = results[r][n].val
                    /\ body.url = input[r].url
                    /\ calls[r][n].fn = "scrapeWithPuppeteer"
                          => body.method = "Puppeteer"
                    /\ calls[r][n].fn = "scrapeWithScraperAPI"
                          => body.method = IF n = 1 THEN "ScraperAPI"
                                           ELSE "ScraperAPI (fallback)"

C13_Witness ==
    /\ route[1] = "/render" /\ Len(sent[1]) = 1 /\ sent[1][1].status = 200
    /\ sent[1][1].body.method = "ScraperAPI"
    /\ sent[1][1].body.html = "<html>A</html>"
    /\ route[2] = "/render" /\ Len(sent[2]) = 1 /\ sent[2][1].status = 200
    /\ sent[2][1].body.method = "ScraperAPI (fallback)"
    /\ sent[2][1].body.html = "<html>B</html>"

\* C14: GET / is answered 200 with the static status object and invokes no
\* strategy, and an idle connection can take GET / in every reachable
\* state, also while a render is in flight on another connection.
C14_HealthAlways200 ==
    \A r \in Reqs :
        /\ route[r] = "/" =>
              /\ pc[r] = "done"
              /\ sent[r] = <<[status |-> 200,
                              body |-> [status |-> "Puppeteer Server Running"]]>>
              /\ calls[r] = <<>> /\ results[r] = <<>>
              /\ browser[r] = "none" /\ page[r] = "none"
        /\ pc[r] = "idle" => ENABLED Health(r)

C14_Witness ==
    /\ route[1] = "/" /\ Len(sent[1]) = 1
    /\ route[2] = "/render" /\ pc[2] = "waitForTimeout" /\ browser[2] = "open"

\* C15: when scrapeWithPuppeteer returns or fails to the handler after the
\* page was opened, the page has been closed and then the browser.
C15_PageThenBrowserClosed ==
    \A r \in Reqs :
        (PrimaryFinished(r) /\ page[r] # "none") =>
            /\ closes[r] = <<"page", "browser">>
            /\ page[r] = "closed" /\ browser[r] = "closed"

\* The strategies a request invoked, in order.
Sequence(r) == [i \in DOMAIN calls[r] |-> calls[r][i].fn]

\* C16: a request makes at most one primary call and then at most one
\* fallback call, two calls at most; the second call starts only after
\* the first has failed, and the primary is never called twice nor after
\* the fallback.
C16_StrategySequence ==
    \A r \in Reqs :
        /\ Sequence(r) \in {<<>>, <<"scrapeWithPuppeteer">>,
                            <<"scrapeWithScraperAPI">>,
                            <<"scrapeWithPuppeteer", "scrapeWithScraperAPI">>}
        /\ Len(results[r]) <= Len(calls[r])
        /\ Len(calls[r]) <= Len(results[r]) + 1
        /\ Len(calls[r]) = 2 => ~results[r][1].ok

C16_Witness ==
    \E r \in Reqs :
        /\ Sequence(r) = <<"scrapeWithPuppeteer", "scrapeWithScraperAPI">>
        /\ pc[r] = "fallback"
        /\ results[r] = <<[ok |-> FALSE, val |-> "setUserAgent failed"]>>

(***************************************************************************)
(* Progress.  The wait duration plays no part in the control flow, so the  *)
(* specification with fairness takes the requests that leave it out.  An   *)
(* awaited call that is going to settle does settle: weak fairness of the  *)
(* step each connection is suspended at.                                   *)
(***************************************************************************)
LiveBodies == {body \in RenderBodies : body.waitFor = Undefined}
LiveQueries == {query \in ScrapeQueries : query.waitFor = Undefined}

RenderLive(r) == \E body \in LiveBodies : RenderOf(r, body)
ScrapeLive(r) == \E query \in LiveQueries : ScrapeOf(r, query)

FairNext ==
    \E r \in Reqs :
        \/ Health(r)
        \/ RenderLive(r)
        \/ ScrapeLive(r)
        \/ StepOf(r)
        \/ Recycle(r)

FairSpec ==
    Init /\ [][FairNext]_vars /\ \A r \in Reqs : WF_vars(StepOf(r))

\* A request has no response while its handler runs and exactly one once
\* the handler is done, and every strategy failure is bound by a catch of
\* the handler.
OneResponse ==
    \A r \in Reqs :
        /\ Len(sent[r]) <= 1
        /\ pc[r] = "done" <=> Len(sent[r]) = 1
        /\ (results[r] # <<>> /\ ~results[r][1].ok) => caught[r] = results[r][1].val
        /\ (Len(results[r]) = 2 /\ ~results[r][2].ok) =>
              /\ pc[r] = "done"
              /\ sent[r][1].body.scraperApiError = results[r][2].val

InFlight(r) == pc[r] \notin {"idle", "done"}

\* C17: provided every awaited strategy call settles, every request of
\* POST /render and GET /scrape is eventually answered, and it is answered
\* exactly once, whatever the calls' outcomes (failures of page.close() and
\* browser.close() included); no strategy failure gets past the handler's
\* catch blocks.
C17_ExactlyOneResponse ==
    /\ []OneResponse
    /\ \A r \in Reqs : InFlight(r) ~> (pc[r] = "done")

C17_Witness ==
    /\ route[1] = "/render" /\ pc[1] = "done" /\ Len(sent[1]) = 1
    /\ Len(results[1]) = 2 /\ results[1][1].val = "page.close failed"
    /\ route[2] = "/scrape" /\ pc[2] = "done" /\ Len(sent[2]) = 1
    /\ Len(results[2]) = 1 /\ results[2][1].val = "browser.close failed"

\* C18: the strategy a request starts with depends on useScraperAPI alone:
\* GET /scrape starts with the fallback strategy exactly when the query
\* value is the string 'true', POST /render exactly when the body value is
\* the boolean true; otherwise, and with the flag absent, the request
\* starts with the primary strategy.
C18_SelectionByFlag ==
    \A r \in Scraping :
        calls[r] # <<>> =>
            /\ route[r] = "/scrape" =>
                  (calls[r][1].fn = "scrapeWithScraperAPI"
                      <=> input[r].useScraperAPI = Str(STR_true))
            /\ route[r] = "/render" =>
                  (calls[r][1].fn = "scrapeWithScraperAPI"
                      <=> input[r].useScraperAPI = Bool(TRUE))
            /\ input[r].useScraperAPI = Undefined =>
                  calls[r][1].fn = "scrapeWithPuppeteer"

CleanupMsgs == {"page.close failed", "browser.close failed"}

\* The step in which page.close() or browser.close() of request r fails:
\* the finally block is left with the resource still open.
CleanupFails(r) ==
    \/ pc[r] = "pageClose" /\ pc'[r] # "pageClose" /\ page'[r] = "open"
    \/ pc[r] = "browserClose" /\ pc'[r] # "browserClose" /\ browser'[r] = "open"

\* Such a step gives the handler a failure of the primary strategy, whatever
\* the try block had completed with (the html of page.content() included):
\* POST /render goes on to the fallback call, GET /scrape answers 500.
CleanupFailureReported ==
    \A r \in Reqs :
        CleanupFails(r) =>
            /\ Len(results'[r]) = 1 /\ ~results'[r][1].ok
            /\ results'[r][1].val \in CleanupMsgs
            /\ route[r] = "/render" =>
                  /\ pc'[r] = "fallback" /\ sent'[r] = <<>>
                  /\ Len(calls'[r]) = 2
                  /\ calls'[r][2].fn = "scrapeWithScraperAPI"
            /\ route[r] = "/scrape" =>
                  sent'[r] = <<[status |-> 500,
                                body |-> [error |-> "Scraping failed",
                                          message |-> results'[r][1].val]]>>

\* A render whose cleanup failed is never answered 200 'Puppeteer'; on
\* POST /render it has exactly one fallback call, on GET /scrape none.
CleanupFailureOutcome ==
    \A r \in Reqs :
        (PrimaryFinished(r) /\ results[r][1].val \in CleanupMsgs) =>
            /\ ~results[r][1].ok
            /\ \A i \in DOMAIN sent[r] :
                  "method" \in DOMAIN sent[r][i].body
                      => sent[r][i].body.method # "Puppeteer"
            /\ Cardinality(Invoked(r, "scrapeWithScraperAPI")) =
                  IF route[r] = "/render" THEN 1 ELSE 0
            /\ Cardinality(Invoked(r, "scrapeWithPuppeteer")) = 1

\* C19: a failure of page.close() or browser.close() reaches the handler as
\* a failure of the primary strategy even when the page content had been
\* obtained: the html is dropped, POST /render invokes the fallback exactly
\* once, GET /scrape answers 500, and no 200 tagged 'Puppeteer' is sent.
C19_CleanupFailureIsPrimaryFailure ==
    []CleanupFailureOutcome /\ [][CleanupFailureReported]_vars

C19_Witness ==
    /\ route[1] = "/render" /\ pc[1] = "done" /\ closes[1] = <<"page">>
    /\ Len(results[1]) = 2 /\ results[1][1].val = "browser.close failed"
    /\ results[1][2].ok /\ sent[1][1].body.method = "ScraperAPI (fallback)"
    /\ route[2] = "/scrape" /\ pc[2] = "done" /\ closes[2] = <<"page">>
    /\ Len(results[2]) = 1 /\ results[2][1].val = "browser.close failed"
    /\ sent[2][1].status = 500

====
